---- MODULE Spec2Model ----
(***************************************************************************)
(* Chatbase Conversations Analyzer (src/app.py).                           *)
(*                                                                         *)
(* Strings are sequences of one-character strings, so that lower() and     *)
(* the substring test `w in s` are computed character by character.        *)
(* Python's None is the one-element sequence <<"None">>, which no real     *)
(* string equals (its element is not a single character).  A dict is a     *)
(* function whose DOMAIN is the set of keys present.                       *)
(***************************************************************************)
EXTENDS Integers, Sequences, FiniteSets, TLC

\* ------------------------------------------------------------------ bounds
\* A generated question is a concatenation of at most MaxFrags fragments.
MaxFrags == 3
\* The batch driver is run on at most MaxQuestions questions ...
MaxQuestions == 4
\* ... with a batch size in 1..MaxBatch.
MaxBatch == 3
\* A document given to the flattener alone has at most MaxConvs conversations ...
MaxConvs == 2
\* ... and at most MaxMsgs messages in all.
MaxMsgs == 4
\* A document whose flat table is aggregated has at most MaxAggConvs
\* conversations of at most MaxAggMsgs messages each.
MaxAggConvs == 2
MaxAggMsgs == 2
\* An uploaded document has at most MaxAppConvs conversations.
MaxAppConvs == 2

\* ----------------------------------------------------------------- strings
None == <<"None">>

UpperChars == <<"A", "B", "C", "D", "E", "F", "G", "H", "I", "J", "K", "L", "M", "N", "O", "P", "Q", "R", "S", "T", "U", "V", "W", "X", "Y", "Z">>
LowerChars == <<"a", "b", "c", "d", "e", "f", "g", "h", "i", "j", "k", "l", "m", "n", "o", "p", "q", "r", "s", "t", "u", "v", "w", "x", "y", "z">>

\* str.lower() on one character
LowerChar(c) ==
    IF \E k \in 1..26 : UpperChars[k] = c
    THEN LowerChars[CHOOSE k \in 1..26 : UpperChars[k] = c]
    ELSE c

\* str.lower()
lower(s) == [k \in 1..Len(s) |-> LowerChar(s[k])]

\* Python's `w in s` on strings: w occurs in s as a contiguous substring
Contains(s, w) ==
    \E k \in 0..(Len(s) - Len(w)) : \A j \in 1..Len(w) : s[k + j] = w[j]

kw_atlan == <<"a", "t", "l", "a", "n">>
kw_what_is == <<"w", "h", "a", "t", " ", "i", "s">>
kw_whats == <<"w", "h", "a", "t", "'", "s">>
kw_define == <<"d", "e", "f", "i", "n", "e">>
kw_explain == <<"e", "x", "p", "l", "a", "i", "n">>
kw_describe == <<"d", "e", "s", "c", "r", "i", "b", "e">>
kw_how_to == <<"h", "o", "w", " ", "t", "o">>
kw_how_do == <<"h", "o", "w", " ", "d", "o">>
kw_guide == <<"g", "u", "i", "d", "e">>
kw_steps == <<"s", "t", "e", "p", "s">>
kw_process == <<"p", "r", "o", "c", "e", "s", "s">>

\* the two keyword lists of analyze_question_category
DefineWords == <<kw_what_is, kw_whats, kw_define, kw_explain, kw_describe>>
HowToWords == <<kw_how_to, kw_how_do, kw_guide, kw_steps, kw_process>>

\* any(word in question for word in words)
any_word_in(question, words) ==
    \E k \in 1..Len(words) : Contains(question, words[k])

\* ---------------------------------------------------------------- helpers
Min(a, b) == IF a <= b THEN a ELSE b

RECURSIVE SeqsUpTo(_, _)
\* all sequences over S of length at most n
SeqsUpTo(S, n) ==
    IF n = 0 THEN { <<>> }
    ELSE LET shorter == SeqsUpTo(S, n - 1) IN
         shorter \cup { Append(s, x) : s \in { t \in shorter : Len(t) = n - 1 }, x \in S }

RECURSIVE Concat(_)
\* the concatenation of a sequence of strings
Concat(ss) == IF ss = <<>> THEN <<>> ELSE Head(ss) \o Concat(Tail(ss))

\* dict.get(key, default)
Get(d, key, default) == IF key \in DOMAIN d THEN d[key] ELSE default

\* d.get(key) == value, for a string value (an absent key gives None, which
\* equals no string)
GetIs(d, key, value) == key \in DOMAIN d /\ d[key] = value

\* ------------------------------------------------------------- classifier
Labels ==
    { "What is / Define (Branded)", "FAQ / How to (Branded)", "Branded",
      "What is / Define (Non branded)", "FAQ / How to Type (Non branded)",
      "Others" }

\* A plausible slip: the how-to keywords are tested before the definitional ones.
classify_howto_first(question) ==
    LET q == lower(question) IN
    IF Contains(q, kw_atlan)
    THEN IF any_word_in(q, HowToWords) THEN "FAQ / How to (Branded)"
         ELSE IF any_word_in(q, DefineWords) THEN "What is / Define (Branded)"
         ELSE "Branded"
    ELSE IF any_word_in(q, HowToWords) THEN "FAQ / How to Type (Non branded)"
         ELSE IF any_word_in(q, DefineWords) THEN "What is / Define (Non branded)"
         ELSE "Others"

\* The body of analyze_question_category on a string.
classify(question) ==
    LET q == lower(question) IN
    IF Contains(q, kw_atlan)
    THEN IF any_word_in(q, DefineWords) THEN "What is / Define (Branded)"
         ELSE IF any_word_in(q, HowToWords) THEN "FAQ / How to (Branded)"
         ELSE "Branded"
    ELSE IF any_word_in(q, DefineWords) THEN "What is / Define (Non branded)"
         ELSE IF any_word_in(q, HowToWords) THEN "FAQ / How to Type (Non branded)"
         ELSE "Others"

\* What the decorated function gives its caller: on None, question.lower()
\* raises AttributeError on each of the three attempts and tenacity raises
\* RetryError; on a string the first attempt returns.
RetryError == "RetryError"
analyze_question_category(question) ==
    IF question = None THEN RetryError ELSE classify(question)

\* --------------------------------------------------------- batch operators
\* [analyze_question_category(q) for q in batch]
classify_batch(batch) == [k \in 1..Len(batch) |-> analyze_question_category(batch[k])]

\* A plausible slip: the fraction is not capped at 1.0.
progress_uncapped(idx, bs, n) == [num |-> idx + bs, den |-> n]

\* min((i + batch_size) / len(questions), 1.0) as an exact fraction num/den
progress_of(idx, bs, n) ==
    IF idx + bs <= n THEN [num |-> idx + bs, den |-> n] ELSE [num |-> 1, den |-> 1]

\* ------------------------------------------------------------- timestamps
\* A created_at string "<date>T<time>.<frac><tail>" is the record
\* [date, time, frac, tail]: date and time are numbers (a calendar day, a
\* second of the day), frac is the text after the dot ("" when the string has
\* no fractional part) and tail the text after it, as a character sequence.

\* s.split('+')[0]: what stands before the first '+'
split_plus(ts) ==
    IF ts.tail # <<>> /\ Head(ts.tail) = "+" THEN [ts EXCEPT !.tail = <<>>] ELSE ts

\* datetime.strptime(s, "%Y-%m-%dT%H:%M:%S.%f") succeeds iff the fractional
\* part is there and nothing follows it
strptime_ok(ts) == ts.frac # "" /\ ts.tail = <<>>

\* created_at.strftime("%B %d, %Y %H:%M:%S"): the microseconds are dropped
strftime(ts) == [date |-> ts.date, time |-> ts.time]

\* pd.to_datetime(s).dt.date of a string strftime wrote
to_date(asked_at) == asked_at.date

\* -------------------------------------------------------------- flattener
NA == "N/A"

FlatColumns ==
    <<"S.No", "Asked at", "Country", "User Question", "Assistant Response", "Score">>

NoDF == [kind |-> "none"]
Raised(e) == [kind |-> "raised", error |-> e]
\* pd.DataFrame(list of dicts): no rows gives a frame with no columns
DataFrame(rows) ==
    [kind |-> "frame",
     columns |-> IF rows = <<>> THEN <<>> ELSE FlatColumns,
     rows |-> rows]

RECURSIVE first_assistant_scan(_, _)
\* A plausible slip: the scan keeps the first assistant text message.
first_assistant_scan(messages, found) ==
    IF messages = <<>> THEN found
    ELSE LET message == Head(messages) IN
         IF found.response = None /\ GetIs(message, "role", "assistant")
                                  /\ GetIs(message, "type", "text")
         THEN first_assistant_scan(Tail(messages),
                  [response |-> Get(message, "content", None),
                   score |-> Get(message, "score", NA)])
         ELSE first_assistant_scan(Tail(messages), found)

RECURSIVE last_assistant_scan(_, _)
\* the first loop over conversation['messages'], from the values `found`
last_assistant_scan(messages, found) ==
    IF messages = <<>> THEN found
    ELSE LET message == Head(messages) IN
         IF GetIs(message, "role", "assistant") /\ GetIs(message, "type", "text")
         THEN last_assistant_scan(Tail(messages),
                  [response |-> Get(message, "content", None),
                   score |-> Get(message, "score", NA)])
         ELSE last_assistant_scan(Tail(messages), found)

\* the dict appended to conversation_details
row_dict(sno, formatted_date, country, user_question, last) ==
    ("S.No" :> sno) @@ ("Asked at" :> formatted_date) @@ ("Country" :> country)
    @@ ("User Question" :> user_question)
    @@ ("Assistant Response" :> last.response) @@ ("Score" :> last.score)

RECURSIVE collect_zero_based(_, _, _, _)
\* A plausible slip: S.No is len(conversation_details), without the + 1.
collect_zero_based(messages, conversation, last, details) ==
    IF messages = <<>> THEN [ok |-> TRUE, details |-> details]
    ELSE LET message == Head(messages) IN
         IF GetIs(message, "role", "user")
         THEN IF "country" \notin DOMAIN conversation
              THEN [ok |-> FALSE, error |-> "KeyError: 'country'"]
              ELSE collect_zero_based(Tail(messages), conversation, last,
                       Append(details,
                           row_dict(Len(details),
                                    strftime(split_plus(conversation.created_at)),
                                    conversation.country,
                                    Get(message, "content", None),
                                    last)))
         ELSE collect_zero_based(Tail(messages), conversation, last, details)

RECURSIVE collect_user_questions(_, _, _, _)
\* the second loop over conversation['messages']: one row per user message,
\* appended to conversation_details; conversation['country'] is read only
\* when a row is built
collect_user_questions(messages, conversation, last, details) ==
    IF messages = <<>> THEN [ok |-> TRUE, details |-> details]
    ELSE LET message == Head(messages) IN
         IF GetIs(message, "role", "user")
         THEN IF "country" \notin DOMAIN conversation
              THEN [ok |-> FALSE, error |-> "KeyError: 'country'"]
              ELSE collect_user_questions(Tail(messages), conversation, last,
                       Append(details,
                           row_dict(Len(details) + 1,
                                    strftime(split_plus(conversation.created_at)),
                                    conversation.country,
                                    Get(message, "content", None),
                                    last)))
         ELSE collect_user_questions(Tail(messages), conversation, last, details)

RECURSIVE flatten_conversations(_, _)
\* the loop over data['conversations'], from the rows collected so far
flatten_conversations(conversations, details) ==
    IF conversations = <<>> THEN DataFrame(details)
    ELSE LET conversation == Head(conversations) IN
         IF "created_at" \notin DOMAIN conversation
         THEN Raised("KeyError: 'created_at'")
         ELSE IF ~strptime_ok(split_plus(conversation.created_at))
         THEN Raised("ValueError")
         ELSE IF "messages" \notin DOMAIN conversation
         THEN Raised("KeyError: 'messages'")
         ELSE LET last == last_assistant_scan(conversation.messages,
                              [response |-> None, score |-> NA])
                  got == collect_user_questions(conversation.messages, conversation,
                                                last, details)
              IN  IF ~got.ok THEN Raised(got.error)
                  ELSE flatten_conversations(Tail(conversations), got.details)

\* process_conversations(data): the frame returned, or the exception raised
process_conversations(d) ==
    IF "conversations" \notin DOMAIN d THEN Raised("KeyError: 'conversations'")
    ELSE flatten_conversations(d.conversations, <<>>)

\* ------------------------------------------------------------ aggregators
HasColumn(frame, c) == \E k \in 1..Len(frame.columns) : frame.columns[k] = c

\* df[c] = values: the column is added at the end, or overwritten in place
SetColumn(frame, c, values) ==
    [frame EXCEPT
        !.columns = IF HasColumn(frame, c) THEN @ ELSE Append(@, c),
        !.rows = [k \in 1..Len(frame.rows) |-> (c :> values[k]) @@ frame.rows[k]]]

\* the rows of the frame whose cell in column key is v
GroupRows(frame, key, v) ==
    { k \in 1..Len(frame.rows) : frame.rows[k][key] = v }

\* 'count': the cells of the group that are not null
CountNonNull(frame, group, c) ==
    Cardinality({ k \in group : frame.rows[k][c] # None })

\* 'nunique': the distinct values of the group's cells
NUnique(frame, group, c) == Cardinality({ frame.rows[k][c] : k \in group })

RECURSIVE SortAscending(_)
\* the elements of a set of numbers in increasing order (groupby sorts its keys)
SortAscending(S) ==
    IF S = {} THEN <<>>
    ELSE LET least == CHOOSE x \in S : \A y \in S : x <= y
         IN  <<least>> \o SortAscending(S \ {least})

\* the orders in which the elements of a set can be listed
Orderings(S) ==
    { o \in [1..Cardinality(S) -> S] : \A x \in S : \E k \in DOMAIN o : o[k] = x }

\* get_daily_metrics(df): the frame as the call leaves it and the value
\* returned (or the exception)
get_daily_metrics(frame) ==
    IF ~HasColumn(frame, "Asked at")
    THEN [df |-> frame, out |-> Raised("KeyError: 'Asked at'")]
    ELSE LET dated == SetColumn(frame, "Date",
                          [k \in 1..Len(frame.rows) |-> to_date(frame.rows[k]["Asked at"])])
             dates == SortAscending({ dated.rows[k]["Date"] : k \in 1..Len(dated.rows) })
             merged == [k \in 1..Len(dates) |->
                          LET group == GroupRows(dated, "Date", dates[k]) IN
                          [Date |-> dates[k],
                           Questions |-> CountNonNull(dated, group, "User Question"),
                           Users |-> NUnique(dated, group, "Country")]]
         IN  [df |-> dated, out |-> [kind |-> "table", rows |-> merged]]

\* get_country_metrics(df): the values the call can return; sort_values uses
\* an unstable sort, so rows with equal Questions come in any order
get_country_metrics(frame) ==
    IF ~HasColumn(frame, "Country")
    THEN { Raised("KeyError: 'Country'") }
    ELSE LET countries == { frame.rows[k]["Country"] : k \in 1..Len(frame.rows) }
             metric(c) ==
                 LET group == GroupRows(frame, "Country", c) IN
                 [Country |-> c,
                  Questions |-> CountNonNull(frame, group, "User Question"),
                  Users |-> NUnique(frame, group, "Asked at")]
             grouped == { metric(c) : c \in countries }
         IN  { [kind |-> "table", rows |-> o] :
                   o \in { p \in Orderings(grouped) :
                             \A k \in 1..(Len(p) - 1) : p[k].Questions >= p[k + 1].Questions } }

\* ------------------------------------------------------ category aggregator
DefaultBatchSize == 250

RECURSIVE run_batches(_, _, _, _, _)
\* get_category_metrics' for loop over analyze_batch_questions(qs, bs), run
\* to its end from loop variable idx: the value final_categories then has
run_batches(qs, bs, idx, categories, final) ==
    IF idx >= Len(qs) THEN final
    ELSE LET batch == SubSeq(qs, idx + 1, Min(idx + bs, Len(qs)))
             extended == categories \o classify_batch(batch)
         IN  run_batches(qs, bs, idx + bs, extended, extended)

\* round(count / total * 100, 2), in hundredths of a percent (halves to even)
percentage_hundredths(count, total) ==
    LET scaled == count * 10000
        floor == scaled \div total
        twice == 2 * (scaled % total)
    IN  IF twice > total \/ (twice = total /\ floor % 2 = 1) THEN floor + 1 ELSE floor

\* get_category_metrics(df): the outcomes the call can have, each the frame
\* as the call leaves it and the pair returned (or the exception).  The frame
\* returned is the argument itself, with the Category column added to it.
get_category_metrics(frame) ==
    IF ~HasColumn(frame, "User Question")
    THEN { [df |-> frame, out |-> Raised("KeyError: 'User Question'")] }
    ELSE LET qs == [k \in 1..Len(frame.rows) |-> frame.rows[k]["User Question"]] IN
         IF \E k \in 1..Len(qs) : qs[k] = None
         THEN { [df |-> frame, out |-> Raised(RetryError)] }
         ELSE LET final == run_batches(qs, DefaultBatchSize, 0, <<>>, None)
                  labelled == SetColumn(frame, "Category", final)
                  present == { final[k] : k \in 1..Len(final) }
                  total == Len(final)
                  metric(c) ==
                      LET count == CountNonNull(labelled, GroupRows(labelled, "Category", c),
                                                "User Question")
                      IN  [Category |-> c, Count |-> count,
                           Percentage |-> percentage_hundredths(count, total)]
                  sorted == { p \in Orderings({ metric(c) : c \in present }) :
                                \A k \in 1..(Len(p) - 1) : p[k].Count >= p[k + 1].Count }
              IN  { [df |-> labelled,
                     out |-> [kind |-> "pair", category_metrics |-> o, df |-> labelled]] :
                        o \in sorted }

\* ------------------------------------------------------------------- main
NotShown == [kind |-> "none"]
NoFile == [kind |-> "none"]

\* what one run of main() has rendered below the uploader
BlankDisplay ==
    [error |-> "", tabs |-> FALSE, full |-> NotShown, daily |-> NotShown,
     country |-> NotShown, button |-> FALSE, category |-> NotShown]

\* pd.to_datetime of a string strftime wrote, and its order
to_datetime(asked_at) == [date |-> asked_at.date, time |-> asked_at.time, frac |-> "000000"]
NotEarlier(a, b) == a.date > b.date \/ (a.date = b.date /\ a.time >= b.time)

\* Tab 1's four assignments: 'Asked at' parsed, the rows sorted by it in
\* descending order (equal timestamps in any order), 'Asked at' formatted
\* again, S.No renumbered
tab1_frames(frame) ==
    LET n == Len(frame.rows)
        asked(k) == to_datetime(frame.rows[k]["Asked at"])
        sorts == { o \in Orderings(1..n) :
                     \A k \in 1..(n - 1) : NotEarlier(asked(o[k]), asked(o[k + 1])) }
    IN  { [frame EXCEPT !.rows =
              [k \in 1..n |-> ("S.No" :> k) @@ ("Asked at" :> strftime(asked(o[k])))
                              @@ frame.rows[o[k]]]] : o \in sorts }

\* df['Score'].mean() raises TypeError when a cell holds the string "N/A"
score_mean_raises(frame) == \E k \in 1..Len(frame.rows) : frame.rows[k]["Score"] = NA

\* df_with_categories[['User Question', 'Category']]
question_details(frame) ==
    [k \in 1..Len(frame.rows) |->
        [question |-> frame.rows[k]["User Question"], category |-> frame.rows[k]["Category"]]]

\* "Show results if analysis is done": the end of tab 4
show_results(ss, shown) ==
    [session_state |-> ss,
     display |->
        IF Get(ss, "category_analysis_done", FALSE)
        THEN [shown EXCEPT !.category =
                 [kind |-> "results",
                  category_metrics |-> ss.category_metrics,
                  details |-> question_details(ss.df_with_categories)]]
        ELSE shown]

\* tab 4, from the button on
tab4(frame, ss, pressed, shown) ==
    IF pressed
    THEN { IF o.out.kind = "raised"
           THEN show_results(ss, [shown EXCEPT !.error = "Error in category analysis"])
           ELSE show_results(("category_metrics" :> o.out.category_metrics)
                             @@ ("df_with_categories" :> o.out.df)
                             @@ ("category_analysis_done" :> TRUE) @@ ss,
                             shown) :
           o \in get_category_metrics(frame) }
    ELSE { show_results(ss, shown) }

\* the tabs, from st.dataframe(df) in tab 1 on
tabs_from(frame, ss, pressed) ==
    LET shown1 == [BlankDisplay EXCEPT !.tabs = TRUE, !.full = frame] IN
    IF score_mean_raises(frame)
    THEN { [session_state |-> ss,
            display |-> [shown1 EXCEPT !.error = "Error processing file"]] }
    ELSE LET daily == get_daily_metrics(frame)
             shown2 == [shown1 EXCEPT !.daily = daily.out]
         IN  UNION { tab4(daily.df, ss, pressed,
                          [shown2 EXCEPT !.country = c, !.button = TRUE]) :
                     c \in get_country_metrics(daily.df) }

\* the upload check at the top of main()
reset_on_new_name(file, ss) ==
    IF "previous_file" \notin DOMAIN ss \/ ss.previous_file # file.name
    THEN ("category_analysis_done" :> FALSE) @@ ("previous_file" :> file.name) @@ ss
    ELSE ss

\* One run of main(): the session state it leaves and what it rendered, for
\* the uploader's file, the session state before and the button's value.
main(file, ss, pressed) ==
    IF file = NoFile
    THEN { [session_state |-> ss, display |-> BlankDisplay] }
    ELSE LET ss1 == reset_on_new_name(file, ss)
             flat == process_conversations(file.data)
         IN  IF flat.kind = "raised"
             THEN { [session_state |-> ss1,
                     display |-> [BlankDisplay EXCEPT !.error = "Error processing file"]] }
             ELSE IF ~HasColumn(flat, "Asked at")
             THEN { [session_state |-> ss1,
                     display |-> [BlankDisplay EXCEPT !.tabs = TRUE,
                                                      !.error = "Error processing file"]] }
             ELSE UNION { tabs_from(sorted, ss1, pressed) : sorted \in tab1_frames(flat) }

\* ------------------------------------------------------------------ inputs
Fragments ==
    { <<"A", "t", "l", "a", "n">>,
      <<"A", "T">>,
      <<"l", "a", "n">>,
      <<"W", "h", "a", "t", " ", "i", "s">>,
      <<"w", "h", "a">>,
      <<"t", " ", "i", "s">>,
      <<"w", "h", "a", "t", "'", "s">>,
      <<"D", "E", "F", "I", "N", "E">>,
      <<"e", "x", "p", "l", "a", "i", "n">>,
      <<"D", "e", "s", "c", "r", "i", "b", "e">>,
      <<"h", "o", "w", " ", "t", "o">>,
      <<"H", "o", "w", " ", "D", "o">>,
      <<"g", "u", "i", "d", "e">>,
      <<"S", "T", "E", "P", "S">>,
      <<"p", "r", "o", "c", "e", "s", "s">>,
      <<" ">>,
      <<"h", "i">> }

\* the questions the classifier is run on: every concatenation of at most
\* MaxFrags fragments, the empty string included
GenQuestions == { Concat(fs) : fs \in SeqsUpTo(Fragments, MaxFrags) }

Q_WhatIsAtlan == <<"W", "h", "a", "t", " ", "i", "s", " ", "A", "t", "l", "a", "n", "?">>
Q_HowDoGuide == <<"H", "o", "w", " ", "d", "o", " ", "I", " ", "s", "e", "t", " ", "u", "p", " ", "a", " ", "g", "u", "i", "d", "e">>
Q_hello == <<"h", "e", "l", "l", "o">>
A_ok == <<"o", "k">>
A_see_docs == <<"s", "e", "e", " ", "d", "o", "c", "s">>
A_img == <<"i", "m", "g">>

\* the questions the batch driver is run on
BatchQuestions == { Q_WhatIsAtlan, Q_HowDoGuide, Q_hello }

\* messages: two user questions, a user message without content, an
\* assistant text with a score, one without, and an assistant image
U1 == [role |-> "user", type |-> "text", content |-> Q_WhatIsAtlan]
U2 == [role |-> "user", type |-> "text", content |-> Q_hello]
U0 == [role |-> "user", type |-> "text"]
A1 == [role |-> "assistant", type |-> "text", content |-> A_ok, score |-> "0.9"]
A2 == [role |-> "assistant", type |-> "text", content |-> A_see_docs]
AX == [role |-> "assistant", type |-> "image", content |-> A_img, score |-> "0.1"]

\* "<date>T<time>.123456+00:00", and the same with the offset -05:00
Timestamp(date, time) ==
    [date |-> date, time |-> time, frac |-> "123456",
     tail |-> <<"+", "0", "0", ":", "0", "0">>]
NegativeOffset(date, time) ==
    [date |-> date, time |-> time, frac |-> "123456",
     tail |-> <<"-", "0", "5", ":", "0", "0">>]

\* documents for the flattener alone
FlatMessages == { U1, U2, A1, A2, AX }
FlatHeads ==
    { [created_at |-> Timestamp(1, 1), country |-> "US"],
      [created_at |-> Timestamp(2, 1), country |-> "IN"] }

RECURSIVE SumTo(_, _)
\* lens[1] + ... + lens[n]
SumTo(lens, n) == IF n = 0 THEN 0 ELSE lens[n] + SumTo(lens, n - 1)

\* the document whose j-th conversation has the keys heads[j] and the next
\* lens[j] messages of pool
FlatDoc(heads, lens, pool) ==
    [conversations |->
        [j \in 1..Len(heads) |->
            heads[j] @@ [messages |-> SubSeq(pool, SumTo(lens, j - 1) + 1, SumTo(lens, j))]]]

\* documents whose flat table is aggregated
AggConversations ==
    { [created_at |-> ts, country |-> c, messages |-> ms] :
        ts \in { Timestamp(1, 1), Timestamp(1, 2), Timestamp(2, 1) },
        c \in { "US", "IN" },
        ms \in SeqsUpTo({ U1, U0, A1 }, MaxAggMsgs) }

AggDocs == { [conversations |-> cs] : cs \in SeqsUpTo(AggConversations, MaxAggConvs) }

\* uploads: a conversation is well-formed, or lacks one of its three keys, or
\* has a timestamp strptime rejects
WellFormedConversations ==
    { [created_at |-> Timestamp(1, 1), country |-> "US", messages |-> ms] :
        ms \in { <<>>, <<U1, A1>>, <<U2, A1>>, <<U2>> } }

Without(d, key) == [k \in DOMAIN d \ {key} |-> d[k]]

AppConversations ==
    WellFormedConversations
    \cup { Without(c, key) : c \in WellFormedConversations,
                             key \in { "created_at", "country", "messages" } }
    \cup { [c EXCEPT !.created_at = NegativeOffset(1, 1)] : c \in WellFormedConversations }

AppDocs ==
    { <<>> } \cup { [conversations |-> cs] : cs \in SeqsUpTo(AppConversations, MaxAppConvs) }

FileNames == { "a.json", "b.json" }

\* ------------------------------------------------------------------- state
VARIABLES
    question,          \* classifier run: the argument
    category,          \* classifier run: the value returned, NoCategory before the call
    questions,         \* batch run: analyze_batch_questions' argument
    batch_size,        \* batch run: analyze_batch_questions' argument
    i,                 \* batch run: the generator's loop variable
    all_categories,    \* batch run: the generator's list
    gen,               \* batch run: "idle" | "running" | "done"
    yielded,           \* batch run: the tuples yielded so far, in order
    final_categories,  \* batch run: get_category_metrics' local, None before the first yield
    data,              \* table run: the parsed document
    df,                \* table run: the flat table (NoDF before process_conversations)
    daily_metrics,     \* table run: what get_daily_metrics returned
    country_metrics,   \* table run: what get_country_metrics returned
    category_result,   \* table run: what get_category_metrics returned
    uploaded_file,     \* session: the uploader's file, NoFile or [name, data]
    session_state,     \* session: st.session_state
    display            \* session: what the last run of main() rendered

classifyVars == <<question, category>>
batchVars == <<questions, batch_size, i, all_categories, gen, yielded, final_categories>>
tableVars == <<data, df, daily_metrics, country_metrics, category_result>>
sessionVars == <<uploaded_file, session_state, display>>
vars == <<question, category, questions, batch_size, i, all_categories, gen, yielded,
          final_categories, data, df, daily_metrics, country_metrics, category_result,
          uploaded_file, session_state, display>>

NoCategory == "-"
NotRun == [kind |-> "none"]

ClassifyIdle == question = <<>> /\ category = NoCategory
BatchIdle ==
    /\ questions = <<>>
    /\ batch_size = 0
    /\ i = 0
    /\ all_categories = <<>>
    /\ gen = "idle"
    /\ yielded = <<>>
    /\ final_categories = None
TableIdle ==
    /\ data = <<>>
    /\ df = NoDF
    /\ daily_metrics = NotRun
    /\ country_metrics = NotRun
    /\ category_result = NotRun
SessionIdle ==
    /\ uploaded_file = NoFile
    /\ session_state = <<>>
    /\ display = BlankDisplay

\* ------------------------------------------------------- classifier runs
InitClassify ==
    /\ question \in GenQuestions
    /\ category = NoCategory
    /\ BatchIdle /\ TableIdle /\ SessionIdle

\* one call of analyze_question_category(question)
AnalyzeQuestionCategory ==
    /\ category = NoCategory
    /\ category' = analyze_question_category(question)
    /\ UNCHANGED <<question, batchVars, tableVars, sessionVars>>

NextClassify == AnalyzeQuestionCategory

SpecClassify == InitClassify /\ [][NextClassify]_vars

\* ------------------------------------------------------------ batch driver
InitBatch ==
    /\ questions \in SeqsUpTo(BatchQuestions, MaxQuestions)
    /\ batch_size \in 1..MaxBatch
    /\ i = 0
    /\ all_categories = <<>>
    /\ gen = "running"
    /\ yielded = <<>>
    /\ final_categories = None
    /\ ClassifyIdle /\ TableIdle /\ SessionIdle

\* One iteration of get_category_metrics' for loop: the generator runs one
\* iteration of its own loop up to the yield, and the caller stores the list.
YieldChunk ==
    /\ gen = "running"
    /\ i < Len(questions)
    /\ LET batch == SubSeq(questions, i + 1, Min(i + batch_size, Len(questions)))
           batch_categories == classify_batch(batch)
           extended == all_categories \o batch_categories
       IN  /\ all_categories' = extended
           /\ yielded' = Append(yielded,
                  [progress |-> progress_of(i, batch_size, Len(questions)),
                   processed |-> i + Min(batch_size, Len(questions) - i),
                   categories |-> extended])
           /\ final_categories' = extended
    /\ i' = i + batch_size
    /\ UNCHANGED <<questions, batch_size, gen, classifyVars, tableVars, sessionVars>>

\* range(0, len(questions), batch_size) is exhausted: the generator returns
\* and the caller's for loop ends.
Exhausted ==
    /\ gen = "running"
    /\ i >= Len(questions)
    /\ gen' = "done"
    /\ UNCHANGED <<questions, batch_size, i, all_categories, yielded, final_categories,
                   classifyVars, tableVars, sessionVars>>

NextBatch == YieldChunk \/ Exhausted

\* The caller's for loop has no break: it resumes the generator until it returns.
SpecBatch == InitBatch /\ [][NextBatch]_vars /\ WF_vars(NextBatch)

\* --------------------------------------------------------------- flattener runs
\* every document of at most MaxConvs conversations holding at most MaxMsgs
\* messages in all
InitFlat ==
    /\ \E c \in 0..MaxConvs, total \in 0..MaxMsgs :
          \E heads \in [1..c -> FlatHeads], lens \in [1..c -> 0..total],
             pool \in [1..total -> FlatMessages] :
                /\ SumTo(lens, c) = total
                /\ data = FlatDoc(heads, lens, pool)
    /\ df = NoDF
    /\ daily_metrics = NotRun
    /\ country_metrics = NotRun
    /\ category_result = NotRun
    /\ ClassifyIdle /\ BatchIdle /\ SessionIdle

\* df = process_conversations(data)
ProcessConversations ==
    /\ df = NoDF
    /\ df' = process_conversations(data)
    /\ UNCHANGED <<data, daily_metrics, country_metrics, category_result,
                   classifyVars, batchVars, sessionVars>>

NextFlat == ProcessConversations

SpecFlat == InitFlat /\ [][NextFlat]_vars

\* -------------------------------------------------------------- aggregator runs
InitAgg ==
    /\ data \in AggDocs
    /\ df = NoDF
    /\ daily_metrics = NotRun
    /\ country_metrics = NotRun
    /\ category_result = NotRun
    /\ ClassifyIdle /\ BatchIdle /\ SessionIdle

\* daily_metrics = get_daily_metrics(df)
GetDailyMetrics ==
    /\ df.kind = "frame"
    /\ daily_metrics = NotRun
    /\ LET r == get_daily_metrics(df) IN
       /\ df' = r.df
       /\ daily_metrics' = r.out
    /\ UNCHANGED <<data, country_metrics, category_result,
                   classifyVars, batchVars, sessionVars>>

\* country_metrics = get_country_metrics(df)
GetCountryMetrics ==
    /\ df.kind = "frame"
    /\ country_metrics = NotRun
    /\ country_metrics' \in get_country_metrics(df)
    /\ UNCHANGED <<data, df, daily_metrics, category_result,
                   classifyVars, batchVars, sessionVars>>

\* category_metrics, df_with_categories = get_category_metrics(df)
GetCategoryMetrics ==
    /\ df.kind = "frame"
    /\ category_result = NotRun
    /\ \E o \in get_category_metrics(df) :
          /\ df' = o.df
          /\ category_result' = o.out
    /\ UNCHANGED <<data, daily_metrics, country_metrics,
                   classifyVars, batchVars, sessionVars>>

NextAgg ==
    \/ ProcessConversations
    \/ GetDailyMetrics
    \/ GetCountryMetrics
    \/ GetCategoryMetrics

SpecAgg == InitAgg /\ [][NextAgg]_vars

\* ---------------------------------------------------------------------- session
InitApp ==
    /\ uploaded_file = NoFile
    /\ session_state = <<>>
    /\ display = BlankDisplay
    /\ ClassifyIdle /\ BatchIdle /\ TableIdle

\* the script has rerun and ended with outcome o
Leaves(o) ==
    /\ session_state' = o.session_state
    /\ display' = o.display

\* the user puts a file into the uploader: the script reruns
Upload ==
    \E name \in FileNames, d \in AppDocs :
        /\ uploaded_file' = [name |-> name, data |-> d]
        /\ \E o \in main([name |-> name, data |-> d], session_state, FALSE) : Leaves(o)
        /\ UNCHANGED <<classifyVars, batchVars, tableVars>>

\* the user removes the file from the uploader: the script reruns
RemoveFile ==
    /\ uploaded_file # NoFile
    /\ uploaded_file' = NoFile
    /\ \E o \in main(NoFile, session_state, FALSE) : Leaves(o)
    /\ UNCHANGED <<classifyVars, batchVars, tableVars>>

\* the user clicks "Analyze Question Categories", which the last run
\* rendered: the script reruns with st.button returning True
PressAnalyze ==
    /\ display.button
    /\ \E o \in main(uploaded_file, session_state, TRUE) : Leaves(o)
    /\ UNCHANGED <<uploaded_file, classifyVars, batchVars, tableVars>>

\* any other interaction that reruns the script (a download button)
Rerun ==
    /\ uploaded_file # NoFile
    /\ \E o \in main(uploaded_file, session_state, FALSE) : Leaves(o)
    /\ UNCHANGED <<uploaded_file, classifyVars, batchVars, tableVars>>

NextApp == Upload \/ RemoveFile \/ PressAnalyze \/ Rerun

SpecApp == InitApp /\ [][NextApp]_vars

\* ------------------------------------------------------------------ claims
\* Case-insensitive occurrence of a lowercase keyword in the raw question.
OccursIgnoringCase(s, w) ==
    \E k \in 0..(Len(s) - Len(w)) : \A j \in 1..Len(w) : LowerChar(s[k + j]) = w[j]

BrandPresent(s) == OccursIgnoringCase(s, kw_atlan)
DefinitionalPresent(s) ==
    \E w \in {kw_what_is, kw_whats, kw_define, kw_explain, kw_describe} :
        OccursIgnoringCase(s, w)
HowToPresent(s) ==
    \E w \in {kw_how_to, kw_how_do, kw_guide, kw_steps, kw_process} :
        OccursIgnoringCase(s, w)

\* the decision table of the claim, first match wins
ExpectedLabel(s) ==
    CASE BrandPresent(s) /\ DefinitionalPresent(s) -> "What is / Define (Branded)"
      [] BrandPresent(s) /\ ~DefinitionalPresent(s) /\ HowToPresent(s) ->
             "FAQ / How to (Branded)"
      [] BrandPresent(s) /\ ~DefinitionalPresent(s) /\ ~HowToPresent(s) -> "Branded"
      [] ~BrandPresent(s) /\ DefinitionalPresent(s) -> "What is / Define (Non branded)"
      [] ~BrandPresent(s) /\ ~DefinitionalPresent(s) /\ HowToPresent(s) ->
             "FAQ / How to Type (Non branded)"
      [] OTHER -> "Others"

\* C5: analyze_question_category returns exactly one of the six labels for
\* every string, decided first-match-wins: brand and definitional keyword,
\* brand and how-to keyword, brand alone, definitional keyword, how-to
\* keyword, otherwise (the empty string included) "Others"; a definitional
\* keyword wins over a how-to keyword when both occur.
C5_ClassifierTable ==
    category # NoCategory =>
        /\ category \in Labels
        /\ category = ExpectedLabel(question)
        /\ (question = <<>> => category = "Others")

\* C5 witness: a classified question holding the brand token, a definitional
\* keyword and a how-to keyword at once.
C5_Witness ==
    /\ category # NoCategory
    /\ BrandPresent(question)
    /\ DefinitionalPresent(question)
    /\ HowToPresent(question)

\* C3: when the batch driver has finished, the last all_categories_so_far
\* value its caller received equals, element for element, the classification
\* of the whole question sequence in one pass -- for every length,
\* 0 included.
C3_FinalEqualsOneShot ==
    gen = "done" => final_categories = classify_batch(questions)

FractionLeq(a, b) == a.num * b.den <= b.num * a.den

C4_TuplesOK ==
    LET n == Len(questions)
        chunks == (n + batch_size - 1) \div batch_size
    IN  gen \in {"running", "done"} =>
        /\ Len(yielded) <= chunks
        /\ (gen = "done" => Len(yielded) = chunks)
        /\ \A k \in 1..Len(yielded) :
              LET y == yielded[k] IN
              /\ y.processed = Min(k * batch_size, n)
              /\ y.processed = Len(y.categories)
              /\ y.progress.den > 0
              /\ 0 < y.progress.num
              /\ y.progress.num <= y.progress.den
              /\ k > 1 => /\ yielded[k - 1].processed <= y.processed
                          /\ FractionLeq(yielded[k - 1].progress, y.progress)
        /\ (gen = "done" /\ yielded # <<>>) =>
              /\ yielded[Len(yielded)].progress.num = yielded[Len(yielded)].progress.den
              /\ yielded[Len(yielded)].processed = n

\* C4: analyze_batch_questions yields exactly one tuple per contiguous chunk
\* of at most batch_size questions and then terminates; in each tuple the
\* fraction lies in (0,1], items_processed_so_far is the number of questions
\* classified so far and the length of the list yielded, both never
\* decrease, and the last tuple has fraction 1.0 and
\* items_processed_so_far = len(questions).
C4_ProgressTuples == [](C4_TuplesOK) /\ <>(gen = "done")

\* C4 witness: a finished run of at least two chunks whose last chunk is
\* shorter than batch_size.
C4_Witness ==
    /\ gen = "done"
    /\ Len(yielded) >= 2
    /\ Len(questions) % batch_size # 0

\* ---- flattener
\* the positions <<conversation, message>> of the document's user messages
UserSlots ==
    UNION { { <<c, j>> : j \in { m \in 1..Len(data.conversations[c].messages) :
                                   GetIs(data.conversations[c].messages[m], "role", "user") } } :
            c \in 1..Len(data.conversations) }

\* document order: conversations first, then messages
Precedes(p, q) == p[1] < q[1] \/ (p[1] = q[1] /\ p[2] < q[2])

\* the k-th user message of the document
SlotOfRow(k) ==
    CHOOSE p \in UserSlots : Cardinality({ q \in UserSlots : Precedes(q, p) }) = k - 1

\* C1: process_conversations emits exactly one row per message with
\* role=user, in document order of conversations and then of messages, and
\* the rows' S.No values are exactly 1..N, N the number of user messages.
C1_OneRowPerUserMessage ==
    df.kind = "frame" =>
        /\ Len(df.rows) = Cardinality(UserSlots)
        /\ \A k \in 1..Len(df.rows) :
              LET p == SlotOfRow(k)
                  conversation == data.conversations[p[1]]
              IN  /\ df.rows[k]["S.No"] = k
                  /\ df.rows[k]["User Question"] =
                         Get(conversation.messages[p[2]], "content", None)
                  /\ df.rows[k]["Country"] = conversation.country
                  /\ df.rows[k]["Asked at"].date = conversation.created_at.date

\* C1 witness: a flattened document of two conversations, each with a user
\* message, with three rows or more and a message that is not a user's.
C1_Witness ==
    /\ df.kind = "frame"
    /\ Len(df.rows) >= 3
    /\ Len(data.conversations) = 2
    /\ \A c \in 1..2 : \E p \in UserSlots : p[1] = c
    /\ \E c \in 1..2 : \E j \in 1..Len(data.conversations[c].messages) : <<c, j>> \notin UserSlots

\* the positions of a conversation's assistant text messages
AssistantTexts(messages) ==
    { j \in 1..Len(messages) : /\ GetIs(messages[j], "role", "assistant")
                               /\ GetIs(messages[j], "type", "text") }

Greatest(S) == CHOOSE x \in S : \A y \in S : y <= x

\* C2: every row of a conversation carries the content and score of the last
\* role=assistant, type=text message of that conversation, wherever it sits
\* (score "N/A" when that message has none), and answer null with score
\* "N/A" when the conversation has no such message; nothing carries over
\* from an earlier conversation.
C2_LastAssistantAnswer ==
    df.kind = "frame" =>
        \A k \in 1..Len(df.rows) :
            LET messages == data.conversations[SlotOfRow(k)[1]].messages
                texts == AssistantTexts(messages)
            IN  IF texts = {}
                THEN /\ df.rows[k]["Assistant Response"] = None
                     /\ df.rows[k]["Score"] = NA
                ELSE /\ df.rows[k]["Assistant Response"] =
                            Get(messages[Greatest(texts)], "content", None)
                     /\ df.rows[k]["Score"] = Get(messages[Greatest(texts)], "score", NA)

\* C2 witness: a flattened document whose first conversation has two
\* assistant texts of different content, the last one after a user message
\* and without a score, and whose second conversation has a user message and
\* no assistant text.
C2_Witness ==
    /\ df.kind = "frame"
    /\ Len(data.conversations) = 2
    /\ LET first == data.conversations[1].messages
           texts == AssistantTexts(first)
       IN  /\ Cardinality(texts) = 2
           /\ \E a \in texts, b \in texts : a < b /\ first[a].content # first[b].content
           /\ "score" \notin DOMAIN first[Greatest(texts)]
           /\ \E p \in UserSlots : p[1] = 1 /\ p[2] < Greatest(texts)
    /\ AssistantTexts(data.conversations[2].messages) = {}
    /\ \E p \in UserSlots : p[1] = 2

\* ---- aggregators
FlatDates == { to_date(df.rows[k]["Asked at"]) : k \in 1..Len(df.rows) }
FlatCountries == { df.rows[k]["Country"] : k \in 1..Len(df.rows) }

\* C6: get_daily_metrics returns exactly one row per distinct calendar date
\* of the flat table, with Questions the number of flat rows on that date
\* (rows whose question is null included) and Users the number of distinct
\* countries on that date; so Questions sums to the row count and each Users
\* is at most the number of distinct countries of the table.
C6_DailyMetrics ==
    (df.kind = "frame" /\ daily_metrics.kind = "table") =>
        LET out == daily_metrics.rows IN
        /\ { out[k].Date : k \in 1..Len(out) } = FlatDates
        /\ Len(out) = Cardinality(FlatDates)
        /\ \A k \in 1..Len(out) :
              LET on_date == { r \in 1..Len(df.rows) :
                                 to_date(df.rows[r]["Asked at"]) = out[k].Date }
              IN  /\ out[k].Questions = Cardinality(on_date)
                  /\ out[k].Users = Cardinality({ df.rows[r]["Country"] : r \in on_date })
                  /\ out[k].Users <= Cardinality(FlatCountries)
        /\ SumTo([k \in 1..Len(out) |-> out[k].Questions], Len(out)) = Len(df.rows)

\* C7: get_country_metrics returns rows sorted by Questions in
\* non-increasing order, the countries of the output are the distinct
\* countries of the flat table, and Questions sums to the table's row count
\* (rows whose question is null included).
C7_CountryMetrics ==
    (df.kind = "frame" /\ country_metrics.kind = "table") =>
        LET out == country_metrics.rows IN
        /\ \A k \in 1..(Len(out) - 1) : out[k].Questions >= out[k + 1].Questions
        /\ { out[k].Country : k \in 1..Len(out) } = FlatCountries
        /\ SumTo([k \in 1..Len(out) |-> out[k].Questions], Len(out)) = Len(df.rows)

\* C8: no aggregation step changes the flat table it is given: whatever
\* aggregators have run, the table still has the columns and the rows the
\* flattener gave it.
C8_FlatTableIntact ==
    df.kind = "frame" => df = process_conversations(data)

\* ---- session
\* the format of section 6: a fractional part, then nothing or a +HH:MM offset
WellFormedTimestamp(ts) ==
    ts.frac # "" /\ (ts.tail = <<>> \/ Head(ts.tail) = "+")

LacksRequired(d) ==
    \/ "conversations" \notin DOMAIN d
    \/ \E k \in 1..Len(d.conversations) :
          LET conversation == d.conversations[k] IN
          \/ "created_at" \notin DOMAIN conversation
          \/ "country" \notin DOMAIN conversation
          \/ "messages" \notin DOMAIN conversation
          \/ ~WellFormedTimestamp(conversation.created_at)

\* C9: when the uploaded document lacks a required key (conversations,
\* created_at, country, messages) or a conversation -- the first or a later
\* one -- has a malformed timestamp, the run reports an error and displays
\* no tab and no table for that upload.
C9_DefectiveUploadAborted ==
    (uploaded_file # NoFile /\ LacksRequired(uploaded_file.data)) =>
        /\ display.error # ""
        /\ ~display.tabs
        /\ display.full = NotShown
        /\ display.daily = NotShown
        /\ display.country = NotShown
        /\ display.category = NotShown

\* what a fresh session shows for a document once the button is pressed
AnalysisOf(file) == { o.display.category : o \in main(file, <<>>, TRUE) }

\* C10: whenever category results are displayed, they were computed from the
\* document the uploader holds now, never from an earlier upload.
C10_ResultsFromCurrentUpload ==
    display.category # NotShown => display.category \in AnalysisOf(uploaded_file)

====
